---- MODULE Spec2Model ----
(***************************************************************************)
(* A model of main.py of grafit-agency/video-uploader: the command-line    *)
(* run (main), the folder resolver (create_asset_folder), the upload       *)
(* (upload_local_asset) and the availability poller (poll_for_asset_url),  *)
(* against a remote site holding folders and assets.                       *)
(*                                                                         *)
(* Every invocation p has a program counter pc[p], its Python locals       *)
(* loc[p] (under the names of the source) and a record hist[p] of what it  *)
(* has done so far (history only: no action reads it in a guard).          *)
(***************************************************************************)
EXTENDS Naturals, Sequences, FiniteSets, TLC

VARIABLES folders, pc, loc, hist, events

vars == <<folders, pc, loc, hist, events>>

(***************************************************************************)
(* Bounds of the model and constants of the program.                       *)
(***************************************************************************)
MaxRetries == 3
MaxCalls == 2
MaxInitFolders == 2

DefaultRetries == 20
Created == 201

None == "<None>"
NoId == "<no id>"
NoFolder == 0
FolderNames == {"Video Uploads", "video uploads"}
AssetIds == {"a1", "a2"}
UrlFields == {"original_url", "hosted_url", "url"}

(***************************************************************************)
(* Python truth of a string-or-None value: None and "" are false.          *)
(***************************************************************************)
Truthy(x) == x # None /\ x # ""

OrElse(x, y) == IF Truthy(x) THEN x ELSE y

(***************************************************************************)
(* The remote asset listing, as webflow.assets.list returns it: a sequence *)
(* of entries, one per asset id at most, each with three URL attributes    *)
(* that are missing (None), empty or populated.  A populated URL names the *)
(* asset and the attribute, so that URLs of different assets differ.       *)
(***************************************************************************)
CdnUrl(a, f) == a \o "/" \o f

UrlValues(a, f) == {None, "", CdnUrl(a, f)}

Entries(a) ==
  { [id |-> a, original_url |-> o, hosted_url |-> h, url |-> u] :
      o \in UrlValues(a, "original_url"),
      h \in UrlValues(a, "hosted_url"),
      u \in UrlValues(a, "url") }

OtherEntries(a) ==
  { e \in Entries(a) :
      \/ e.original_url = None /\ e.hosted_url = None /\ e.url = None
      \/ Truthy(e.original_url) /\ Truthy(e.hosted_url) /\ Truthy(e.url) }

Listings(asset_id) ==
  LET mine == Entries(asset_id)
      others == UNION { OtherEntries(a) : a \in AssetIds \ {asset_id} }
  IN  {<< >>} \cup { <<e>> : e \in mine \cup others }
        \cup { <<e, o>> : e \in mine, o \in others }
        \cup { <<o, e>> : e \in mine, o \in others }

(***************************************************************************)
(* Files: the input video and the transcoder's output, their bytes and the *)
(* md5 digest of bytes (get_file_md5, lines 94-99).                        *)
(***************************************************************************)
InputPath == "clip.mov"

(* Line 41: output_dir / input_path.with_suffix('.webm').name.             *)
OutputPath(input_path) ==
  IF input_path = "clip.mov" THEN "compressed/clip.webm" ELSE None

(* Line 131: os.path.basename(file_path).                                  *)
Basename(path) ==
  CASE path = "compressed/clip.webm" -> "clip.webm"
    [] path = "clip.mov" -> "clip.mov"
    [] OTHER -> path

FileBytes(path) ==
  CASE path = "clip.mov" -> "bytes of clip.mov"
    [] path = "compressed/clip.webm" -> "bytes of clip.webm"
    [] OTHER -> ""

get_file_md5(path) == "md5 of " \o FileBytes(path)

(***************************************************************************)
(* The response of webflow.assets.create (lines 136-145): the asset id,    *)
(* the upload URL and the pre-signed fields, among them the status the     *)
(* storage answers with on success.                                        *)
(***************************************************************************)
DeclaredStatuses == {200, 201}
ResponseStatuses == {200, 201, 403}

UploadDetails(status) ==
  [ acl |-> "public-read", bucket |-> "assets-bucket",
    x_amz_algorithm |-> "AWS4-HMAC-SHA256", x_amz_credential |-> "cred",
    x_amz_date |-> "date", key |-> "key", policy |-> "policy",
    x_amz_signature |-> "signature", success_action_status |-> status,
    content_type |-> "video/webm", cache_control |-> "max-age" ]

NoSession ==
  [ id |-> NoId, upload_url |-> None, upload_details |-> UploadDetails(0) ]

NewAssetIds == {"a1"}

Sessions ==
  { [ id |-> a, upload_url |-> "https://upload/" \o a,
      upload_details |-> UploadDetails(st) ] :
      a \in NewAssetIds, st \in DeclaredStatuses }

(***************************************************************************)
(* The locals of one invocation and the record of what it has done.        *)
(***************************************************************************)
LocInit ==
  [ input_path |-> None, compressed_path |-> None, file_path |-> None,
    folder_name |-> "", folders_list |-> << >>, folder_id |-> NoFolder,
    file_name |-> None, file_hash |-> None, upload_init |-> NoSession,
    status_code |-> 0,
    asset_id |-> NoId, retries |-> 0, i |-> 0, final_url |-> None,
    exit_code |-> 0 ]

HistInit ==
  [ fetches |-> 0, errors |-> 0, sleeps |-> 0, seen |-> << >>,
    last_error |-> FALSE, ever_ready |-> FALSE,
    calls |-> << >>, creates |-> 0, ops |-> << >>, posted |-> << >>,
    printed |-> << >>, failed |-> None, answer |-> None,
    initiated |-> << >> ]

(***************************************************************************)
(* poll_for_asset_url, lines 101-127.                                      *)
(*   next((a for a in all_assets if a.id == asset_id), None): the index of *)
(*   the first entry with the id, 0 for None.                              *)
(***************************************************************************)
TargetIndexAnyId(all_assets, asset_id) ==
  IF Len(all_assets) = 0 THEN 0 ELSE 1

TargetIndex(all_assets, asset_id) ==
  LET hits == { k \in 1..Len(all_assets) : all_assets[k].id = asset_id }
  IN  IF hits = {} THEN 0
      ELSE CHOOSE k \in hits : \A m \in hits : k <= m

AssetUrlHostedFirst(target_asset) ==
  OrElse(target_asset.hosted_url,
         OrElse(target_asset.original_url, target_asset.url))

AssetUrl(target_asset) ==
  OrElse(target_asset.original_url,
         OrElse(target_asset.hosted_url, target_asset.url))

(* The url of lines 109-116 for a listing: None when the asset is not      *)
(* listed, else the first true attribute of its entry (or the last one).   *)
PolledUrl(all_assets, asset_id) ==
  LET k == TargetIndex(all_assets, asset_id)
  IN  IF k = 0 THEN None ELSE AssetUrl(all_assets[k])

(* What the record keeps of a fetched listing: its entries of the id.      *)
EntriesOf(all_assets, asset_id) ==
  SelectSeq(all_assets, LAMBDA a : a.id = asset_id)

(* Line 104, for i in range(retries): whether the loop has an iteration i. *)
InRangeInclusive(i, retries) == i <= retries

InRange(i, retries) == i < retries

(* An entry with a populated URL attribute, as the fetched listing shows   *)
(* it (kept in the record, read by no guard).                              *)
Populated(e) ==
  Truthy(e.original_url) \/ Truthy(e.hosted_url) \/ Truthy(e.url)

ShowsUrl(all_assets, asset_id) ==
  \E k \in 1..Len(all_assets) :
    all_assets[k].id = asset_id /\ Populated(all_assets[k])

(* Line 104, range(retries) exhausted, and line 127: return None.          *)
PollExhausted(p) ==
  /\ pc[p] = "poll_for"
  /\ ~ InRange(loc[p].i, loc[p].retries)
  /\ pc' = [pc EXCEPT ![p] = "poll_returned"]
  /\ loc' = [loc EXCEPT ![p].final_url = None]
  /\ UNCHANGED <<folders, hist, events>>

(* Lines 104-121: one attempt whose listing arrives.  A true url returns   *)
(* (line 117); otherwise the attempt goes on to the sleep of line 123.     *)
PollAttempt(p) ==
  /\ pc[p] = "poll_for"
  /\ InRange(loc[p].i, loc[p].retries)
  /\ \E all_assets \in Listings(loc[p].asset_id) :
       LET url == PolledUrl(all_assets, loc[p].asset_id)
       IN  /\ hist' = [hist EXCEPT
                         ![p].fetches = @ + 1,
                         ![p].seen = EntriesOf(all_assets, loc[p].asset_id),
                         ![p].last_error = FALSE,
                         ![p].ever_ready =
                            @ \/ ShowsUrl(all_assets, loc[p].asset_id)]
           /\ IF Truthy(url)
              THEN /\ pc' = [pc EXCEPT ![p] = "poll_returned"]
                   /\ loc' = [loc EXCEPT ![p].final_url = url]
              ELSE /\ pc' = [pc EXCEPT ![p] = "poll_sleep"]
                   /\ loc' = loc
  /\ UNCHANGED <<folders, events>>

(* Lines 106 and 124-125: the listing request raises; the handler prints   *)
(* and goes on to the sleep of line 126.                                   *)
PollAttemptAborts(p) ==
  /\ pc[p] = "poll_for"
  /\ InRange(loc[p].i, loc[p].retries)
  /\ hist' = [hist EXCEPT ![p].fetches = @ + 1, ![p].errors = @ + 1,
                          ![p].seen = << >>, ![p].last_error = TRUE]
  /\ pc' = [pc EXCEPT ![p] = "poll_returned"]
  /\ loc' = [loc EXCEPT ![p].final_url = None]
  /\ UNCHANGED <<folders, events>>

PollAttemptRaises(p) ==
  /\ pc[p] = "poll_for"
  /\ InRange(loc[p].i, loc[p].retries)
  /\ hist' = [hist EXCEPT ![p].fetches = @ + 1, ![p].errors = @ + 1,
                          ![p].seen = << >>, ![p].last_error = TRUE]
  /\ pc' = [pc EXCEPT ![p] = "poll_except"]
  /\ UNCHANGED <<folders, loc, events>>

(* Line 123: time.sleep(delay) after an attempt that was not ready, then   *)
(* the next i of the loop.                                                 *)
PollSleepSkipsLast(p) ==
  /\ pc[p] = "poll_sleep"
  /\ hist' = [hist EXCEPT ![p].sleeps =
                IF loc[p].i + 1 < loc[p].retries THEN @ + 1 ELSE @]
  /\ loc' = [loc EXCEPT ![p].i = @ + 1]
  /\ pc' = [pc EXCEPT ![p] = "poll_for"]
  /\ UNCHANGED <<folders, events>>

PollSleep(p) ==
  /\ pc[p] = "poll_sleep"
  /\ hist' = [hist EXCEPT ![p].sleeps = @ + 1]
  /\ loc' = [loc EXCEPT ![p].i = @ + 1]
  /\ pc' = [pc EXCEPT ![p] = "poll_for"]
  /\ UNCHANGED <<folders, events>>

PollExceptSleepSameStep(p) ==
  /\ pc[p] = "poll_except"
  /\ hist' = [hist EXCEPT ![p].sleeps = @ + 1]
  /\ pc' = [pc EXCEPT ![p] = "poll_for"]
  /\ UNCHANGED <<folders, loc, events>>

(* Line 126: time.sleep(delay) in the exception handler, then the next i.  *)
PollExceptSleep(p) ==
  /\ pc[p] = "poll_except"
  /\ hist' = [hist EXCEPT ![p].sleeps = @ + 1]
  /\ loc' = [loc EXCEPT ![p].i = @ + 1]
  /\ pc' = [pc EXCEPT ![p] = "poll_for"]
  /\ UNCHANGED <<folders, events>>

(***************************************************************************)
(* The poller on its own: poll_for_asset_url(site_id, asset_id, retries)   *)
(* called with any asset id and any retries up to MaxRetries.              *)
(***************************************************************************)
InitPoll ==
  /\ folders = << >>
  /\ events = << >>
  /\ pc = [p \in {1} |-> "poll_for"]
  /\ \E asset_id \in AssetIds, retries \in 0..MaxRetries :
       loc = [p \in {1} |->
                [LocInit EXCEPT !.asset_id = asset_id, !.retries = retries]]
  /\ hist = [p \in {1} |-> HistInit]

NextPoll ==
  \/ \E p \in DOMAIN pc : PollExhausted(p)
  \/ \E p \in DOMAIN pc : PollAttempt(p)
  \/ \E p \in DOMAIN pc : PollAttemptRaises(p)
  \/ \E p \in DOMAIN pc : PollSleep(p)
  \/ \E p \in DOMAIN pc : PollExceptSleep(p)

SpecPoll == InitPoll /\ [][NextPoll]_vars

(* The poller as a running call: a request that was sent is answered or    *)
(* raises, and a sleep ends, so a step that can be taken is taken.         *)
SpecPollFair == SpecPoll /\ WF_vars(NextPoll)

(***************************************************************************)
(* create_asset_folder, lines 77-92.  The site's folders are a sequence of *)
(* records; a folder may lack a display name (getattr(..., None)).  events *)
(* is the order in which the invocations' folder requests reached the      *)
(* site.                                                                   *)
(***************************************************************************)
(* A comparison of names that ignores case, on the names considered.       *)
Lower(name) == IF name = "Video Uploads" THEN "video uploads" ELSE name

NameMatchesAnyCase(folder, folder_name) ==
  Lower(folder.display_name) = Lower(folder_name)

(* Line 83: getattr(folder, 'display_name', None) == folder_name.          *)
NameMatches(folder, folder_name) == folder.display_name = folder_name

ExistingFolderNever(folders_list, folder_name) == 0

(* Lines 81-85: the index of the first folder of the name, 0 for None.     *)
ExistingFolder(folders_list, folder_name) ==
  LET hits == { k \in 1..Len(folders_list) :
                  NameMatches(folders_list[k], folder_name) }
  IN  IF hits = {} THEN 0
      ELSE CHOOSE k \in hits : \A m \in hits : k <= m

(* The id the site gives a new folder: one no folder has.                  *)
NewFolderId == Len(folders) + 1

(* Lines 78-88: list the folders, scan them, return the id of the one      *)
(* found or go on to create one.                                           *)
FolderList(p) ==
  /\ pc[p] = "folder_list"
  /\ LET k == ExistingFolder(folders, loc[p].folder_name)
     IN  IF k # 0
         THEN /\ pc' = [pc EXCEPT ![p] = "folder_returned"]
              /\ loc' = [loc EXCEPT ![p].folders_list = folders,
                                    ![p].folder_id = folders[k].id]
              /\ hist' = [hist EXCEPT ![p].ops = Append(@, "list_folders"),
                                     ![p].calls =
                                       Append(@, [name |-> loc[p].folder_name,
                                                  id |-> folders[k].id,
                                                  created |-> FALSE])]
         ELSE /\ pc' = [pc EXCEPT ![p] = "folder_create"]
              /\ loc' = [loc EXCEPT ![p].folders_list = folders]
              /\ hist' = [hist EXCEPT ![p].ops = Append(@, "list_folders")]
  /\ events' = Append(events, [by |-> p, op |-> "list",
                               name |-> loc[p].folder_name])
  /\ UNCHANGED folders

(* Line 78: list_folders raises; nothing in create_asset_folder or main    *)
(* catches it.                                                             *)
FolderListRaises(p) ==
  /\ pc[p] = "folder_list"
  /\ pc' = [pc EXCEPT ![p] = "raised"]
  /\ hist' = [hist EXCEPT ![p].ops = Append(@, "list_folders")]
  /\ events' = Append(events, [by |-> p, op |-> "list",
                               name |-> loc[p].folder_name])
  /\ UNCHANGED <<folders, loc>>

(* Lines 90-92: create the folder and return the id of the response.       *)
FolderCreate(p) ==
  /\ pc[p] = "folder_create"
  /\ folders' = Append(folders, [id |-> NewFolderId,
                                 display_name |-> loc[p].folder_name])
  /\ loc' = [loc EXCEPT ![p].folder_id = NewFolderId]
  /\ hist' = [hist EXCEPT ![p].creates = @ + 1,
                          ![p].ops = Append(@, "create_folder"),
                          ![p].calls =
                            Append(@, [name |-> loc[p].folder_name,
                                       id |-> NewFolderId,
                                       created |-> TRUE])]
  /\ events' = Append(events, [by |-> p, op |-> "create",
                               name |-> loc[p].folder_name])
  /\ pc' = [pc EXCEPT ![p] = "folder_returned"]

(* Line 91: create_folder raises (no folder is made).                      *)
FolderCreateRaises(p) ==
  /\ pc[p] = "folder_create"
  /\ pc' = [pc EXCEPT ![p] = "raised"]
  /\ hist' = [hist EXCEPT ![p].creates = @ + 1,
                          ![p].ops = Append(@, "create_folder")]
  /\ events' = Append(events, [by |-> p, op |-> "create_failed",
                               name |-> loc[p].folder_name])
  /\ UNCHANGED <<folders, loc>>

(***************************************************************************)
(* The resolver on its own: two invocations against one site, each calling *)
(* create_asset_folder(site_id, folder_name) up to MaxCalls times, one     *)
(* call after the other.                                                   *)
(***************************************************************************)
DisplayNames == FolderNames \cup {None}

InitialFolders ==
  UNION { { [k \in 1..n |-> [id |-> k, display_name |-> names[k]]] :
              names \in [1..n -> DisplayNames] } : n \in 0..MaxInitFolders }

Resolvers == {1, 2}

InitFolder ==
  /\ folders \in InitialFolders
  /\ events = << >>
  /\ pc = [p \in Resolvers |-> "folder_list"]
  /\ \E names \in [Resolvers -> FolderNames] :
       loc = [p \in Resolvers |-> [LocInit EXCEPT !.folder_name = names[p]]]
  /\ hist = [p \in Resolvers |-> HistInit]

(* The next call of create_asset_folder by an invocation whose call        *)
(* returned.                                                               *)
FolderCallAgain(p) ==
  /\ pc[p] = "folder_returned"
  /\ Len(hist[p].calls) < MaxCalls
  /\ \E folder_name \in FolderNames :
       loc' = [loc EXCEPT ![p].folder_name = folder_name,
                          ![p].folders_list = << >>,
                          ![p].folder_id = NoFolder]
  /\ pc' = [pc EXCEPT ![p] = "folder_list"]
  /\ UNCHANGED <<folders, hist, events>>

NextFolder ==
  \/ \E p \in DOMAIN pc : FolderList(p)
  \/ \E p \in DOMAIN pc : FolderListRaises(p)
  \/ \E p \in DOMAIN pc : FolderCreate(p)
  \/ \E p \in DOMAIN pc : FolderCreateRaises(p)
  \/ \E p \in DOMAIN pc : FolderCallAgain(p)

SpecFolder == InitFolder /\ [][NextFolder]_vars


(***************************************************************************)
(* The run of the script: the module-level checks (lines 13-21) and main   *)
(* (lines 178-217).  A process ends with pc = "exit" and loc.exit_code:    *)
(* 0 when main returns, the argument of sys.exit, 1 for an exception       *)
(* nothing catches, 2 for an argparse error.                               *)
(***************************************************************************)
Exit(p, code) ==
  /\ pc' = [pc EXCEPT ![p] = "exit"]
  /\ loc' = [loc EXCEPT ![p].exit_code = code]

(* Lines 16-21: both environment variables are set.                        *)
Startup(p) ==
  /\ pc[p] = "start"
  /\ pc' = [pc EXCEPT ![p] = "main"]
  /\ UNCHANGED <<folders, loc, hist, events>>

(* Lines 16-18: a variable is missing: sys.exit(1).                        *)
StartupMissingEnv(p) ==
  /\ pc[p] = "start"
  /\ Exit(p, 1)
  /\ hist' = [hist EXCEPT ![p].failed = "env"]
  /\ UNCHANGED <<folders, events>>

(* Lines 179-188: the arguments parse and the input file exists.           *)
MainValidate(p) ==
  /\ pc[p] = "main"
  /\ loc' = [loc EXCEPT ![p].input_path = InputPath]
  /\ pc' = [pc EXCEPT ![p] = "compress"]
  /\ UNCHANGED <<folders, hist, events>>

(* Line 182: parse_args rejects the command line (exit status 2).          *)
MainBadArgs(p) ==
  /\ pc[p] = "main"
  /\ Exit(p, 2)
  /\ hist' = [hist EXCEPT ![p].failed = "args"]
  /\ UNCHANGED <<folders, events>>

(* Lines 186-188: the input is not a file: sys.exit(1).                    *)
MainInputMissing(p) ==
  /\ pc[p] = "main"
  /\ Exit(p, 1)
  /\ hist' = [hist EXCEPT ![p].failed = "input"]
  /\ UNCHANGED <<folders, events>>

(* compress_video, lines 30-67: the transcoder exits with 0.               *)
CompressVideo(p) ==
  /\ pc[p] = "compress"
  /\ loc' = [loc EXCEPT ![p].compressed_path = OutputPath(loc[p].input_path)]
  /\ hist' = [hist EXCEPT ![p].ops = Append(@, "ffmpeg")]
  /\ pc' = [pc EXCEPT ![p] = "confirm"]
  /\ UNCHANGED <<folders, events>>

CompressFailsGoesOn(p) ==
  /\ pc[p] = "compress"
  /\ \E cause \in {"mkdir", "ffmpeg exit status", "ffmpeg not found"} :
       hist' = [hist EXCEPT ![p].failed = cause,
                            ![p].ops = IF cause = "mkdir" THEN @
                                       ELSE Append(@, "ffmpeg")]
  /\ loc' = [loc EXCEPT ![p].compressed_path = OutputPath(loc[p].input_path)]
  /\ pc' = [pc EXCEPT ![p] = "confirm"]
  /\ UNCHANGED <<folders, events>>

(* Lines 35-39 and 68-73: the output directory cannot be made, the         *)
(* transcoder exits with another status, or it is not found: sys.exit(1).  *)
CompressFails(p) ==
  /\ pc[p] = "compress"
  /\ \E cause \in {"mkdir", "ffmpeg exit status", "ffmpeg not found"} :
       hist' = [hist EXCEPT ![p].failed = cause,
                            ![p].ops = IF cause = "mkdir" THEN @
                                       ELSE Append(@, "ffmpeg")]
  /\ Exit(p, 1)
  /\ UNCHANGED <<folders, events>>

(* Line 204: input(...).strip().lower() of the answers considered.         *)
Answers == {" Y ", "", "n", "yes"}

StripLower(answer) ==
  CASE answer = " Y " -> "y"
    [] OTHER -> answer

ConfirmedYesToo(confirm) == confirm \in {"y", "", "yes"}

(* Line 206: confirm == 'y' or confirm == ''.                              *)
Confirmed(confirm) == confirm = "y" \/ confirm = ""

MainConfirmSkipsFolder(p) ==
  /\ pc[p] = "confirm"
  /\ \E answer \in Answers :
       /\ hist' = [hist EXCEPT ![p].answer = answer]
       /\ pc' = [pc EXCEPT ![p] = "upload"]
       /\ loc' = [loc EXCEPT ![p].folder_name = "Video Uploads",
                             ![p].folder_id = 1,
                             ![p].file_path = loc[p].compressed_path]
  /\ UNCHANGED <<folders, events>>

(* Lines 194-217: the sizes are printed, the user answers; on 'y' or ''    *)
(* main goes on to create_asset_folder(site_id, "Video Uploads"), on any   *)
(* other answer it prints the cancellation and returns.                    *)
MainConfirm(p) ==
  /\ pc[p] = "confirm"
  /\ \E answer \in Answers :
       IF Confirmed(StripLower(answer))
       THEN /\ hist' = [hist EXCEPT ![p].answer = answer]
            /\ pc' = [pc EXCEPT ![p] = "folder_list"]
            /\ loc' = [loc EXCEPT ![p].folder_name = "Video Uploads"]
       ELSE /\ hist' = [hist EXCEPT ![p].answer = answer,
                                    ![p].printed = Append(@, "cancelled")]
            /\ Exit(p, 0)
  /\ UNCHANGED <<folders, events>>

(* Lines 194-204: stat or input raises (a file is gone, the input is       *)
(* empty and the reduction divides by zero, the terminal is closed).       *)
MainConfirmRaises(p) ==
  /\ pc[p] = "confirm"
  /\ Exit(p, 1)
  /\ hist' = [hist EXCEPT ![p].failed = "sizes or input"]
  /\ UNCHANGED <<folders, events>>

MainAfterFolderUploadsInput(p) ==
  /\ pc[p] = "folder_returned"
  /\ IF loc[p].folder_id # NoFolder
     THEN /\ pc' = [pc EXCEPT ![p] = "upload"]
          /\ loc' = [loc EXCEPT ![p].folders_list = << >>,
                                ![p].file_path = loc[p].input_path]
     ELSE Exit(p, 0)
  /\ UNCHANGED <<folders, hist, events>>

(* Lines 211-215: create_asset_folder returned; its locals are gone; with  *)
(* a true folder id main calls upload_local_asset(site_id, folder_id,      *)
(* compressed_path), else it returns.                                      *)
MainAfterFolder(p) ==
  /\ pc[p] = "folder_returned"
  /\ IF loc[p].folder_id # NoFolder
     THEN /\ pc' = [pc EXCEPT ![p] = "upload"]
          /\ loc' = [loc EXCEPT ![p].folders_list = << >>,
                                ![p].file_path = loc[p].compressed_path]
     ELSE Exit(p, 0)
  /\ UNCHANGED <<folders, hist, events>>

(* Line 211: create_asset_folder raised and main has no handler: the       *)
(* traceback is printed and the process ends with status 1.                *)
MainUncaught(p) ==
  /\ pc[p] = "raised"
  /\ Exit(p, 1)
  /\ hist' = [hist EXCEPT ![p].failed = hist[p].ops[Len(hist[p].ops)]]
  /\ UNCHANGED <<folders, events>>

(* Lines 215-217: upload_local_asset returned, main returns.               *)
MainReturns(p) ==
  /\ pc[p] = "upload_returned"
  /\ Exit(p, 0)
  /\ UNCHANGED <<folders, hist, events>>

(***************************************************************************)
(* upload_local_asset, lines 129-174.  Its except clause (lines 173-174)   *)
(* prints the error and the function returns.                              *)
(***************************************************************************)
(* Lines 131-134: the name and the md5 digest of the file.                 *)
UploadHash(p) ==
  /\ pc[p] = "upload"
  /\ loc' = [loc EXCEPT ![p].file_name = Basename(loc[p].file_path),
                        ![p].file_hash = get_file_md5(loc[p].file_path)]
  /\ hist' = [hist EXCEPT ![p].ops = Append(@, "hash")]
  /\ pc' = [pc EXCEPT ![p] = "upload_create"]
  /\ UNCHANGED <<folders, events>>

(* Lines 134 and 173-174: the file cannot be read.                         *)
UploadHashRaises(p) ==
  /\ pc[p] = "upload"
  /\ hist' = [hist EXCEPT ![p].ops = Append(@, "hash"),
                          ![p].failed = "hash",
                          ![p].printed = Append(@, "error")]
  /\ pc' = [pc EXCEPT ![p] = "upload_returned"]
  /\ UNCHANGED <<folders, loc, events>>

(* Lines 136-141: the arguments of webflow.assets.create.                  *)
CreateRequest(p) ==
  [ parent_folder |-> loc[p].folder_id, file_name |-> loc[p].file_name,
    file_hash |-> loc[p].file_hash ]

(* Lines 136-145: webflow.assets.create answers with an upload session.    *)
UploadCreate(p) ==
  /\ pc[p] = "upload_create"
  /\ \E upload_init \in Sessions :
       loc' = [loc EXCEPT ![p].upload_init = upload_init,
                          ![p].asset_id = upload_init.id]
  /\ hist' = [hist EXCEPT ![p].ops = Append(@, "initiate"),
                          ![p].initiated = Append(@, CreateRequest(p))]
  /\ pc' = [pc EXCEPT ![p] = "upload_post"]
  /\ UNCHANGED <<folders, events>>

UploadCreateUncaught(p) ==
  /\ pc[p] = "upload_create"
  /\ hist' = [hist EXCEPT ![p].ops = Append(@, "initiate"),
                          ![p].initiated = Append(@, CreateRequest(p)),
                          ![p].failed = "initiate"]
  /\ Exit(p, 1)
  /\ UNCHANGED <<folders, events>>

(* Lines 136 and 173-174: webflow.assets.create raises.                    *)
UploadCreateRaises(p) ==
  /\ pc[p] = "upload_create"
  /\ hist' = [hist EXCEPT ![p].ops = Append(@, "initiate"),
                          ![p].initiated = Append(@, CreateRequest(p)),
                          ![p].failed = "initiate",
                          ![p].printed = Append(@, "error")]
  /\ pc' = [pc EXCEPT ![p] = "upload_returned"]
  /\ UNCHANGED <<folders, loc, events>>

FormDataFixedStatus(d) ==
  [ k \in { "acl", "bucket", "X-Amz-Algorithm", "X-Amz-Credential",
            "X-Amz-Date", "key", "Policy", "X-Amz-Signature",
            "success_action_status", "Content-Type", "Cache-Control" } |->
      CASE k = "acl" -> d.acl
        [] k = "bucket" -> d.bucket
        [] k = "X-Amz-Algorithm" -> d.x_amz_algorithm
        [] k = "X-Amz-Credential" -> d.x_amz_credential
        [] k = "X-Amz-Date" -> d.x_amz_date
        [] k = "key" -> d.key
        [] k = "Policy" -> d.policy
        [] k = "X-Amz-Signature" -> d.x_amz_signature
        [] k = "success_action_status" -> Created
        [] k = "Content-Type" -> d.content_type
        [] k = "Cache-Control" -> d.cache_control ]

(* Lines 147-153: the form data, key by key.                               *)
FormData(d) ==
  [ k \in { "acl", "bucket", "X-Amz-Algorithm", "X-Amz-Credential",
            "X-Amz-Date", "key", "Policy", "X-Amz-Signature",
            "success_action_status", "Content-Type", "Cache-Control" } |->
      CASE k = "acl" -> d.acl
        [] k = "bucket" -> d.bucket
        [] k = "X-Amz-Algorithm" -> d.x_amz_algorithm
        [] k = "X-Amz-Credential" -> d.x_amz_credential
        [] k = "X-Amz-Date" -> d.x_amz_date
        [] k = "key" -> d.key
        [] k = "Policy" -> d.policy
        [] k = "X-Amz-Signature" -> d.x_amz_signature
        [] k = "success_action_status" -> d.success_action_status
        [] k = "Content-Type" -> d.content_type
        [] k = "Cache-Control" -> d.cache_control ]

(* Lines 147-158: the form POST of the fields and the file to upload_url;  *)
(* the storage answers with a status.                                      *)
UploadPost(p) ==
  /\ pc[p] = "upload_post"
  /\ \E status_code \in ResponseStatuses :
       loc' = [loc EXCEPT ![p].status_code = status_code]
  /\ hist' = [hist EXCEPT
                ![p].ops = Append(@, "post"),
                ![p].posted =
                  Append(@, [url |-> loc[p].upload_init.upload_url,
                             data |-> FormData(loc[p].upload_init.upload_details),
                             file_name |-> loc[p].file_name,
                             file_bytes |-> FileBytes(loc[p].file_path),
                             content_type |->
                               loc[p].upload_init.upload_details.content_type])]
  /\ pc' = [pc EXCEPT ![p] = "upload_check"]
  /\ UNCHANGED <<folders, events>>

(* Lines 155-158 and 173-174: open or requests.post raises.                *)
UploadPostRaises(p) ==
  /\ pc[p] = "upload_post"
  /\ hist' = [hist EXCEPT ![p].ops = Append(@, "post"),
                          ![p].failed = "post",
                          ![p].printed = Append(@, "error")]
  /\ pc' = [pc EXCEPT ![p] = "upload_returned"]
  /\ UNCHANGED <<folders, loc, events>>

UploadSucceededOn2xx(status_code, upload_details) ==
  status_code \in {200, Created}

(* Line 160: upload_response.status_code == 201.                           *)
UploadSucceeded(status_code, upload_details) == status_code = Created

UploadCheckRetriesPost(p) ==
  /\ pc[p] = "upload_check"
  /\ IF UploadSucceeded(loc[p].status_code, loc[p].upload_init.upload_details)
     THEN /\ hist' = [hist EXCEPT ![p].printed = Append(@, "upload ok"),
                                  ![p].ops = Append(@, "poll")]
          /\ loc' = [loc EXCEPT ![p].retries = DefaultRetries, ![p].i = 0]
          /\ pc' = [pc EXCEPT ![p] = "poll_for"]
     ELSE /\ hist' = hist
          /\ loc' = loc
          /\ pc' = [pc EXCEPT ![p] = "upload_post"]
  /\ UNCHANGED <<folders, events>>

(* Lines 160-162 and 170-171: on success the poller is called with its     *)
(* default retries; otherwise the failure is printed and the function      *)
(* returns.                                                                *)
UploadCheck(p) ==
  /\ pc[p] = "upload_check"
  /\ IF UploadSucceeded(loc[p].status_code, loc[p].upload_init.upload_details)
     THEN /\ hist' = [hist EXCEPT ![p].printed = Append(@, "upload ok"),
                                  ![p].ops = Append(@, "poll")]
          /\ loc' = [loc EXCEPT ![p].retries = DefaultRetries, ![p].i = 0]
          /\ pc' = [pc EXCEPT ![p] = "poll_for"]
     ELSE /\ hist' = [hist EXCEPT ![p].printed = Append(@, "upload failed")]
          /\ loc' = loc
          /\ pc' = [pc EXCEPT ![p] = "upload_returned"]
  /\ UNCHANGED <<folders, events>>

UploadAfterPollFatal(p) ==
  /\ pc[p] = "poll_returned"
  /\ IF Truthy(loc[p].final_url)
     THEN /\ hist' = [hist EXCEPT ![p].printed = Append(@, "success")]
          /\ pc' = [pc EXCEPT ![p] = "upload_returned"]
          /\ loc' = loc
     ELSE /\ hist' = [hist EXCEPT ![p].failed = "timeout"]
          /\ Exit(p, 1)
  /\ UNCHANGED <<folders, events>>

(* Lines 162-169: the poller returned: the URL or the timeout is printed.  *)
UploadAfterPoll(p) ==
  /\ pc[p] = "poll_returned"
  /\ hist' = [hist EXCEPT ![p].printed =
                Append(@, IF Truthy(loc[p].final_url)
                          THEN "success" ELSE "timed out")]
  /\ pc' = [pc EXCEPT ![p] = "upload_returned"]
  /\ UNCHANGED <<folders, loc, events>>

(***************************************************************************)
(* One run of the script against a site that has no folder, or the folder  *)
(* "Video Uploads".                                                        *)
(***************************************************************************)
SiteFolders == {<< >>, <<[id |-> 1, display_name |-> "Video Uploads"]>>}

Init ==
  /\ folders \in SiteFolders
  /\ events = << >>
  /\ pc = [p \in {1} |-> "start"]
  /\ loc = [p \in {1} |-> LocInit]
  /\ hist = [p \in {1} |-> HistInit]

Next ==
  \/ \E p \in DOMAIN pc : Startup(p)
  \/ \E p \in DOMAIN pc : StartupMissingEnv(p)
  \/ \E p \in DOMAIN pc : MainValidate(p)
  \/ \E p \in DOMAIN pc : MainBadArgs(p)
  \/ \E p \in DOMAIN pc : MainInputMissing(p)
  \/ \E p \in DOMAIN pc : CompressVideo(p)
  \/ \E p \in DOMAIN pc : CompressFails(p)
  \/ \E p \in DOMAIN pc : MainConfirm(p)
  \/ \E p \in DOMAIN pc : MainConfirmRaises(p)
  \/ \E p \in DOMAIN pc : FolderList(p)
  \/ \E p \in DOMAIN pc : FolderListRaises(p)
  \/ \E p \in DOMAIN pc : FolderCreate(p)
  \/ \E p \in DOMAIN pc : FolderCreateRaises(p)
  \/ \E p \in DOMAIN pc : MainAfterFolder(p)
  \/ \E p \in DOMAIN pc : MainUncaught(p)
  \/ \E p \in DOMAIN pc : UploadHash(p)
  \/ \E p \in DOMAIN pc : UploadHashRaises(p)
  \/ \E p \in DOMAIN pc : UploadCreate(p)
  \/ \E p \in DOMAIN pc : UploadCreateRaises(p)
  \/ \E p \in DOMAIN pc : UploadPost(p)
  \/ \E p \in DOMAIN pc : UploadPostRaises(p)
  \/ \E p \in DOMAIN pc : UploadCheck(p)
  \/ \E p \in DOMAIN pc : PollExhausted(p)
  \/ \E p \in DOMAIN pc : PollAttempt(p)
  \/ \E p \in DOMAIN pc : PollAttemptRaises(p)
  \/ \E p \in DOMAIN pc : PollSleep(p)
  \/ \E p \in DOMAIN pc : PollExceptSleep(p)
  \/ \E p \in DOMAIN pc : UploadAfterPoll(p)
  \/ \E p \in DOMAIN pc : MainReturns(p)

Spec == Init /\ [][Next]_vars


(***************************************************************************)
(* Properties of the poller (under SpecPoll).                              *)
(***************************************************************************)
Polling == DOMAIN pc

PollReturned(p) == pc[p] = "poll_returned"

Resolved(p) == PollReturned(p) /\ Truthy(loc[p].final_url)

TimedOut(p) == PollReturned(p) /\ loc[p].final_url = None

(* The last fetch returned a listing showing the asset with a URL.         *)
LastShowsUrl(p) ==
  /\ hist[p].fetches >= 1
  /\ ~ hist[p].last_error
  /\ \E k \in 1..Len(hist[p].seen) : Populated(hist[p].seen[k])

UrlPriority == <<"original_url", "hosted_url", "url">>

(* The first non-empty attribute of an entry in the priority order.        *)
FirstPopulated(e) ==
  LET ks == { k \in 1..Len(UrlPriority) : Truthy(e[UrlPriority[k]]) }
  IN  IF ks = {} THEN None
      ELSE e[UrlPriority[CHOOSE k \in ks : \A m \in ks : k <= m]]

C3_TimedOutAfterExactlyMaxAttempts ==
  \A p \in Polling :
    /\ hist[p].fetches <= loc[p].retries
    /\ PollReturned(p) /\ ~ hist[p].ever_ready
         => loc[p].final_url = None /\ hist[p].fetches = loc[p].retries
    /\ ~ hist[p].ever_ready /\ hist[p].fetches < loc[p].retries
         => ~ PollReturned(p)

C3_Witness ==
  \E p \in Polling :
    /\ TimedOut(p)
    /\ loc[p].retries >= 2
    /\ hist[p].fetches = loc[p].retries
    /\ hist[p].errors >= 1
    /\ Len(hist[p].seen) = 1
    /\ ~ hist[p].ever_ready

(* C4: an error in one attempt never ends the loop: after k errors with    *)
(* k < maxAttempts the poller is still polling, and if the first k fetches *)
(* raised and fetch k+1 shows the asset with a URL, the poller returns     *)
(* that URL.                                                               *)
C4_ErrorsDoNotAbort ==
  \A p \in Polling :
    /\ hist[p].last_error /\ hist[p].fetches < loc[p].retries
         => pc[p] \in {"poll_except", "poll_for"}
    /\ hist[p].errors = hist[p].fetches - 1 /\ LastShowsUrl(p)
         => Resolved(p) /\ loc[p].final_url = FirstPopulated(hist[p].seen[1])

C4_Witness ==
  \E p \in Polling :
    /\ Resolved(p)
    /\ loc[p].retries >= 2
    /\ hist[p].errors = loc[p].retries - 1
    /\ hist[p].fetches = loc[p].retries

(* C5: if the first listing fetched shows the asset with a URL, the poller *)
(* returns that URL after one fetch and no sleep.                          *)
C5_ResolvesOnFirstListing ==
  \A p \in Polling :
    hist[p].fetches = 1 /\ LastShowsUrl(p)
      => /\ Resolved(p)
         /\ loc[p].final_url = FirstPopulated(hist[p].seen[1])
         /\ hist[p].sleeps = 0

C5_Witness ==
  \E p \in Polling :
    /\ Resolved(p)
    /\ hist[p].fetches = 1
    /\ hist[p].sleeps = 0
    /\ loc[p].retries >= 2

(* C6: a returned URL is the first non-empty attribute, in the order       *)
(* original_url, hosted_url, url, of the entry with the asset's id; a      *)
(* listing without such an entry, or whose entry has no non-empty URL, is  *)
(* not ready and resolves nothing; no URL of another id is returned.       *)
C6_UrlByPriority ==
  \A p \in Polling :
    /\ Resolved(p)
         => /\ LastShowsUrl(p)
            /\ loc[p].final_url = FirstPopulated(hist[p].seen[1])
            /\ \E f \in UrlFields : loc[p].final_url = CdnUrl(loc[p].asset_id, f)
    /\ hist[p].fetches >= 1 /\ ~ LastShowsUrl(p) => ~ Resolved(p)

C6_Witness ==
  \E p \in Polling :
    /\ Resolved(p)
    /\ ~ Truthy(hist[p].seen[1].original_url)
    /\ loc[p].final_url = hist[p].seen[1].hosted_url
    /\ Truthy(hist[p].seen[1].url)

(***************************************************************************)
(* Properties of the folder resolver (under SpecFolder).                   *)
(***************************************************************************)
CreateEvents == { k \in DOMAIN events : events[k].op = "create" }

(* The folders the site had before any invocation created one.             *)
FoldersAtStart == SubSeq(folders, 1, Len(folders) - Cardinality(CreateEvents))

NamedAtStart(name) ==
  \E k \in 1..Len(FoldersAtStart) : FoldersAtStart[k].display_name = name

NoOtherWriter(p) == \A q \in DOMAIN pc \ {p} : hist[q].creates = 0

CreatesFor(p, name) ==
  Cardinality({ k \in 1..Len(hist[p].calls) :
                  hist[p].calls[k].name = name /\ hist[p].calls[k].created })

(* The folders of a listing whose display name is the name exactly.        *)
ExactMatches(folders_list, name) ==
  { k \in 1..Len(folders_list) : folders_list[k].display_name = name }

(* C9: with no other writer, two calls in sequence with the same name      *)
(* return the same folder id and the second creates nothing, so that one   *)
(* create request is issued in total (none when the site had a folder of   *)
(* the name from the start); and a call whose listing holds a folder of    *)
(* exactly the name returns the id of the first such folder and issues no  *)
(* create request.                                                         *)
C9_SequentialCallsIdempotent ==
  \A p \in DOMAIN pc :
    /\ NoOtherWriter(p) =>
         \A j, k \in 1..Len(hist[p].calls) :
           j < k /\ hist[p].calls[j].name = hist[p].calls[k].name
             => /\ hist[p].calls[j].id = hist[p].calls[k].id
                /\ ~ hist[p].calls[k].created
                /\ CreatesFor(p, hist[p].calls[k].name) =
                     IF NamedAtStart(hist[p].calls[k].name) THEN 0 ELSE 1
    /\ pc[p] = "folder_create"
         => ExactMatches(loc[p].folders_list, loc[p].folder_name) = {}
    /\ pc[p] = "folder_returned"
         /\ ExactMatches(loc[p].folders_list, loc[p].folder_name) # {}
         => LET hits == ExactMatches(loc[p].folders_list, loc[p].folder_name)
                first == CHOOSE k \in hits : \A m \in hits : k <= m
                call == hist[p].calls[Len(hist[p].calls)]
            IN  /\ loc[p].folder_id = loc[p].folders_list[first].id
                /\ call.id = loc[p].folder_id
                /\ ~ call.created

C9_Witness ==
  \E p \in DOMAIN pc :
    /\ NoOtherWriter(p)
    /\ Len(hist[p].calls) = 2
    /\ hist[p].calls[1].name = hist[p].calls[2].name
    /\ hist[p].calls[1].created
    /\ ~ hist[p].calls[2].created
    /\ hist[p].calls[1].id = hist[p].calls[2].id
    /\ hist[p].creates = 1

(* The last listing request of invocation p before event k (0: none).      *)
LastListBefore(p, k) ==
  LET ls == { m \in 1..(k - 1) : events[m].by = p /\ events[m].op = "list" }
  IN  IF ls = {} THEN 0 ELSE CHOOSE m \in ls : \A n \in ls : n <= m

(* C10: list-scan-create is not atomic.  Two folders of one name are       *)
(* created exactly in the interleaving the claim describes: whenever two   *)
(* create requests for the same name succeed, the later creator had listed *)
(* before the earlier one created (both listed before either created), and *)
(* a folder is created only for a name the site did not have at the start. *)
C10_DuplicateOnlyWhenBothListFirst ==
  /\ \A k \in CreateEvents : ~ NamedAtStart(events[k].name)
  /\ \A j, k \in CreateEvents :
       j < k /\ events[j].name = events[k].name
         => /\ events[j].by # events[k].by
            /\ LastListBefore(events[k].by, k) # 0
            /\ LastListBefore(events[k].by, k) < j
            /\ LastListBefore(events[j].by, j) < j

(* Both resolvers listed, both missed, both created: two remote folders    *)
(* with the same display name.                                             *)
C10_Witness ==
  \E j, k \in CreateEvents :
    /\ j < k
    /\ events[j].by # events[k].by
    /\ events[j].name = events[k].name
    /\ ~ NamedAtStart(events[j].name)
    /\ Cardinality(ExactMatches(folders, events[j].name)) = 2

(***************************************************************************)
(* Properties of a run of the script (under Spec).                         *)
(***************************************************************************)
Has(seq, x) == \E k \in 1..Len(seq) : seq[k] = x

Count(seq, x) == Cardinality({ k \in 1..Len(seq) : seq[k] = x })

Exited(p) == pc[p] = "exit"

(* C2: the upload counts as successful exactly when the status of the      *)
(* response equals the success_action_status of the session's pre-signed   *)
(* fields.                                                                 *)
C2_SuccessIffDeclaredStatus ==
  \A p \in DOMAIN pc :
    Has(hist[p].printed, "upload ok") \/ Has(hist[p].printed, "upload failed")
      => ( Has(hist[p].printed, "upload ok")
             <=> loc[p].status_code =
                   loc[p].upload_init.upload_details.success_action_status )

(* C7, as the claim states it: the digest of the file is computed before   *)
(* the folder listing request is issued.                                   *)
C7_HashBeforeFolderListing ==
  \A p \in DOMAIN pc :
    \A k \in 1..Len(hist[p].ops) :
      hist[p].ops[k] = "list_folders"
        => \E j \in 1..(k - 1) : hist[p].ops[j] = "hash"

OpRank(op) ==
  CASE op = "ffmpeg" -> 0
    [] op = "list_folders" -> 1
    [] op = "create_folder" -> 2
    [] op = "hash" -> 3
    [] op = "initiate" -> 4
    [] op = "post" -> 5
    [] op = "poll" -> 6

(* C7, amended: the operations of a run occur in the strict order resolve  *)
(* folder (list, then create if needed), hash, initiate upload, form POST, *)
(* poll: the folder requests are issued and answered before the digest is  *)
(* computed, no operation is issued twice, and each later step is issued   *)
(* only after the step before it.                                          *)
C7_FolderThenHashThenUpload ==
  \A p \in DOMAIN pc :
    /\ \A j, k \in 1..Len(hist[p].ops) :
         j < k => OpRank(hist[p].ops[j]) < OpRank(hist[p].ops[k])
    /\ Has(hist[p].ops, "create_folder") => Has(hist[p].ops, "list_folders")
    /\ Has(hist[p].ops, "hash")
         => Has(hist[p].ops, "list_folders") /\ loc[p].folder_id # NoFolder
    /\ Has(hist[p].ops, "initiate") => Has(hist[p].ops, "hash")
    /\ Has(hist[p].ops, "post") => Has(hist[p].ops, "initiate")
    /\ Has(hist[p].ops, "poll") => Has(hist[p].ops, "post")

C7_Witness ==
  \E p \in DOMAIN pc :
    /\ Exited(p)
    /\ hist[p].ops = <<"ffmpeg", "list_folders", "create_folder", "hash",
                       "initiate", "post", "poll">>
    /\ Truthy(loc[p].final_url)

(* C8: a failure of list_folders, create_folder or the create-asset-upload *)
(* call is fatal: the call is not repeated, no form POST and no poll       *)
(* follow, and the process ends with exit code 1.                          *)
C8_RemoteErrorIsFatal ==
  \A p \in DOMAIN pc :
    Exited(p) /\ hist[p].failed \in {"list_folders", "create_folder", "initiate"}
      => /\ loc[p].exit_code = 1
         /\ Count(hist[p].ops, hist[p].failed) = 1
         /\ ~ Has(hist[p].ops, "post")
         /\ ~ Has(hist[p].ops, "poll")

(* The function upload_local_asset has returned, or the process has ended. *)
UploadOver(p) == pc[p] \in {"upload_returned", "exit"}

(* The status of the POST has been examined (line 160).                    *)
StatusChecked(p) ==
  Has(hist[p].ops, "post") /\ hist[p].failed # "post"
    /\ pc[p] \notin {"upload_post", "upload_check"}

(* C11: when the POST is answered with a status that counts as rejected    *)
(* (any other than 201), the failure is reported, the POST is not          *)
(* repeated, the poller is never started (no listing is fetched) and the   *)
(* process ends with exit code 0; the poller starts only after a POST      *)
(* that counted as success.                                                *)
C11_RejectedUploadEndsCleanly ==
  \A p \in DOMAIN pc :
    /\ StatusChecked(p) /\ loc[p].status_code # Created
         => /\ Has(hist[p].printed, "upload failed")
            /\ UploadOver(p)
            /\ Count(hist[p].ops, "post") = 1
            /\ ~ Has(hist[p].ops, "poll")
            /\ hist[p].fetches = 0
            /\ hist[p].failed = None
            /\ Exited(p) => loc[p].exit_code = 0
    /\ Has(hist[p].ops, "poll") \/ hist[p].fetches > 0
         => /\ Has(hist[p].printed, "upload ok")
            /\ ~ Has(hist[p].printed, "upload failed")
            /\ loc[p].status_code = Created

C11_Witness ==
  \E p \in DOMAIN pc :
    /\ Exited(p)
    /\ loc[p].exit_code = 0
    /\ loc[p].status_code = 403
    /\ hist[p].printed = <<"upload failed">>
    /\ hist[p].fetches = 0

(* The answers whose trimmed, lower-cased form is 'y' or empty.            *)
YesAnswers == {"y", "Y", " y", " Y ", "y ", "", " ", "  "}

(* C12: the upload proceeds if and only if the trimmed, lower-cased answer *)
(* is 'y' or empty; after any other answer no folder request, hash,        *)
(* upload initiation, POST or poll occurs, and the process ends with exit  *)
(* code 0.                                                                 *)
C12_UploadOnlyWhenConfirmed ==
  \A p \in DOMAIN pc :
    hist[p].answer # None =>
      IF hist[p].answer \in YesAnswers
      THEN /\ ~ Has(hist[p].printed, "cancelled")
           /\ pc[p] = "folder_list" \/ Has(hist[p].ops, "list_folders")
      ELSE /\ Exited(p)
           /\ loc[p].exit_code = 0
           /\ hist[p].printed = <<"cancelled">>
           /\ hist[p].ops = <<"ffmpeg">>
           /\ events = << >>
           /\ hist[p].fetches = 0
           /\ hist[p].initiated = << >>
           /\ hist[p].posted = << >>

C12_Witness ==
  \E p \in DOMAIN pc :
    /\ hist[p].answer = "n"
    /\ Exited(p)
    /\ loc[p].exit_code = 0
    /\ hist[p].ops = <<"ffmpeg">>

(* C13: when the poller returns None after a successful POST, the run is   *)
(* reported as "upload worked, timed out waiting for URL" and ends with    *)
(* exit code 0: no error is raised, and there is no second upload and no   *)
(* second round of polling.                                                *)
C13_TimeoutIsPartialSuccess ==
  \A p \in DOMAIN pc :
    /\ UploadOver(p) /\ Has(hist[p].ops, "poll") /\ loc[p].final_url = None
         => /\ hist[p].printed = <<"upload ok", "timed out">>
            /\ hist[p].failed = None
            /\ hist[p].fetches = DefaultRetries
            /\ Count(hist[p].ops, "initiate") = 1
            /\ Count(hist[p].ops, "post") = 1
            /\ Count(hist[p].ops, "poll") = 1
            /\ Exited(p) => loc[p].exit_code = 0
    /\ Has(hist[p].printed, "timed out")
         => loc[p].final_url = None /\ loc[p].status_code = Created

C13_Witness ==
  \E p \in DOMAIN pc :
    /\ Exited(p)
    /\ loc[p].exit_code = 0
    /\ Has(hist[p].printed, "timed out")
    /\ hist[p].fetches = DefaultRetries
    /\ hist[p].errors >= 1

(* C14: a run whose transcoder exits with a non-zero status, or whose      *)
(* transcoder is not found, ends with exit code 1 before the confirmation  *)
(* prompt: no folder request, hash, upload initiation, POST or poll is     *)
(* ever made in it.                                                        *)
C14_TranscoderFailureIsFatal ==
  \A p \in DOMAIN pc :
    hist[p].failed \in {"ffmpeg exit status", "ffmpeg not found"}
      => /\ Exited(p)
         /\ loc[p].exit_code = 1
         /\ hist[p].answer = None
         /\ hist[p].ops = <<"ffmpeg">>
         /\ events = << >>
         /\ hist[p].fetches = 0
         /\ hist[p].initiated = << >>
         /\ hist[p].posted = << >>

C14_Witness ==
  \E p \in DOMAIN pc :
    /\ hist[p].failed = "ffmpeg not found"
    /\ Exited(p)
    /\ loc[p].exit_code = 1
    /\ hist[p].answer = None

(* The position of the first occurrence of an operation (0: none).         *)
FirstAt(seq, x) ==
  IF Has(seq, x) THEN CHOOSE k \in 1..Len(seq) :
                        seq[k] = x /\ \A m \in 1..(k - 1) : seq[m] # x
  ELSE 0

(* C15: the upload session is consumed exactly once: a run makes at most   *)
(* one upload initiation request and at most one form POST, the POST is    *)
(* made only after the initiation returned a session, and it goes to that  *)
(* session's upload URL.                                                   *)
C15_SessionUsedOnce ==
  \A p \in DOMAIN pc :
    /\ Count(hist[p].ops, "initiate") <= 1
    /\ Count(hist[p].ops, "post") <= 1
    /\ Len(hist[p].initiated) <= 1
    /\ Len(hist[p].posted) <= 1
    /\ Has(hist[p].ops, "post")
         => /\ FirstAt(hist[p].ops, "initiate") # 0
            /\ FirstAt(hist[p].ops, "initiate") < FirstAt(hist[p].ops, "post")
            /\ loc[p].upload_init \in Sessions
    /\ \A k \in 1..Len(hist[p].posted) :
         hist[p].posted[k].url = loc[p].upload_init.upload_url

C15_Witness ==
  \E p \in DOMAIN pc :
    /\ Exited(p)
    /\ Len(hist[p].posted) = 1
    /\ hist[p].posted[1].url = loc[p].upload_init.upload_url
    /\ Count(hist[p].ops, "initiate") = 1
    /\ loc[p].status_code = 403

TranscodedPath == "compressed/clip.webm"

(* C16: the digest and the file name sent in the upload initiation request *)
(* and the name and the bytes sent in the form POST are those of the       *)
(* transcoded output file compressed/<stem>.webm, never those of the       *)
(* input file.                                                             *)
C16_UploadsTranscodedFile ==
  \A p \in DOMAIN pc :
    /\ \A k \in 1..Len(hist[p].initiated) :
         /\ hist[p].initiated[k].file_hash = "md5 of bytes of clip.webm"
         /\ hist[p].initiated[k].file_name = "clip.webm"
         /\ hist[p].initiated[k].file_hash # get_file_md5(loc[p].input_path)
    /\ \A k \in 1..Len(hist[p].posted) :
         /\ hist[p].posted[k].file_bytes = "bytes of clip.webm"
         /\ hist[p].posted[k].file_name = "clip.webm"
         /\ hist[p].posted[k].file_bytes # FileBytes(loc[p].input_path)
    /\ Has(hist[p].ops, "hash") => loc[p].file_path = TranscodedPath

C16_Witness ==
  \E p \in DOMAIN pc :
    /\ Len(hist[p].initiated) = 1
    /\ Len(hist[p].posted) = 1
    /\ hist[p].initiated[1].file_hash = "md5 of bytes of clip.webm"
    /\ hist[p].posted[1].file_bytes = "bytes of clip.webm"
    /\ loc[p].input_path = "clip.mov"

(* The form key of each pre-signed field of the session.                   *)
PresignedFields ==
  { <<"acl", "acl">>, <<"bucket", "bucket">>,
    <<"X-Amz-Algorithm", "x_amz_algorithm">>,
    <<"X-Amz-Credential", "x_amz_credential">>,
    <<"X-Amz-Date", "x_amz_date">>, <<"key", "key">>,
    <<"Policy", "policy">>, <<"X-Amz-Signature", "x_amz_signature">>,
    <<"success_action_status", "success_action_status">>,
    <<"Content-Type", "content_type">>,
    <<"Cache-Control", "cache_control">> }

(* C17: the form data of the POST holds every pre-signed field of the      *)
(* session with its value unchanged and nothing else, and the content type *)
(* of the file part is the session's content type.                         *)
C17_FieldsForwardedVerbatim ==
  \A p \in DOMAIN pc :
    \A k \in 1..Len(hist[p].posted) :
      LET data == hist[p].posted[k].data
          d == loc[p].upload_init.upload_details
      IN  /\ DOMAIN data = { f[1] : f \in PresignedFields }
          /\ DOMAIN d = { f[2] : f \in PresignedFields }
          /\ \A f \in PresignedFields : data[f[1]] = d[f[2]]
          /\ hist[p].posted[k].content_type = d.content_type

C17_Witness ==
  \E p \in DOMAIN pc :
    /\ Len(hist[p].posted) = 1
    /\ hist[p].posted[1].data["success_action_status"] = 200
    /\ loc[p].upload_init.upload_details.success_action_status = 200
    /\ hist[p].posted[1].data["Policy"] = "policy"

(* C18: no failure inside upload_local_asset escapes it: when the hash     *)
(* read, the upload initiation or the form POST raises, the error is       *)
(* printed, the remaining steps are skipped and the process ends with exit *)
(* code 0, and errors in the poller's attempts end the run in the same     *)
(* way; once the user has confirmed, only a failure of the folder          *)
(* resolution ends the process with another exit code.                     *)
C18_UploadFailuresAreCaught ==
  \A p \in DOMAIN pc :
    /\ hist[p].failed \in {"hash", "initiate", "post"}
         => /\ hist[p].printed = <<"error">>
            /\ hist[p].ops[Len(hist[p].ops)] = hist[p].failed
            /\ UploadOver(p)
            /\ hist[p].fetches = 0
            /\ Exited(p) => loc[p].exit_code = 0
    /\ Exited(p) /\ Has(hist[p].ops, "hash") => loc[p].exit_code = 0
    /\ Exited(p) /\ hist[p].answer # None /\ loc[p].exit_code # 0
         => /\ hist[p].failed \in {"list_folders", "create_folder"}
            /\ ~ Has(hist[p].ops, "hash")

C18_Witness ==
  \E p \in DOMAIN pc :
    /\ Exited(p)
    /\ loc[p].exit_code = 0
    /\ hist[p].failed = "initiate"
    /\ hist[p].printed = <<"error">>
    /\ hist[p].posted = << >>

(***************************************************************************)
(* Termination of the poller (under SpecPollFair).                         *)
(***************************************************************************)
PollBounded ==
  \A p \in Polling :
    /\ hist[p].fetches <= loc[p].retries
    /\ hist[p].sleeps <= loc[p].retries
    /\ PollReturned(p) => loc[p].final_url = None \/ Truthy(loc[p].final_url)
    /\ loc[p].retries = 0 => hist[p].fetches = 0 /\ hist[p].sleeps = 0
    /\ loc[p].retries = 0 /\ PollReturned(p) => loc[p].final_url = None

(* C19: for every retries >= 0 and every sequence of listings and errors,  *)
(* poll_for_asset_url terminates, it never fetches more than retries       *)
(* listings, and its result is a non-empty URL or None; with retries = 0   *)
(* it returns None without a fetch and without a sleep.                    *)
C19_PollerTerminates ==
  /\ [] PollBounded
  /\ <> (\A p \in Polling : PollReturned(p))

C19_Witness ==
  \E p \in Polling :
    /\ loc[p].retries = 0
    /\ PollReturned(p)
    /\ loc[p].final_url = None
    /\ hist[p].fetches = 0
    /\ hist[p].sleeps = 0

====
